---- MODULE Spec2Model ----
(***************************************************************************)
(* A model of the umask crate: the Mode value type of src/src/mode.rs, its *)
(* bitwise algebra, its builders and predicates, its Display formatting    *)
(* and its string parser.                                                  *)
(*                                                                         *)
(* A u32 is modelled as the set of the positions of its one bits, within   *)
(* 0..Width-1 (TLC's integers are 32-bit signed and cannot hold a u32).    *)
(* `&` is intersection, `|` is union and `!` is the complement within      *)
(* 0..Width-1.  A Mode is the record [value |-> u32], as the struct is.    *)
(* A char is a one-character string and a string a sequence of chars.      *)
(***************************************************************************)
EXTENDS Integers, Sequences, FiniteSets, TLC

VARIABLES
    mode,   \* the Mode the caller holds (the receiver `m` of the methods)
    other,  \* a second Mode the caller holds (the operand of binary operations)
    text,   \* the string the caller holds (Display's output, parse's input)
    call,   \* the last call: its name, receiver, argument and return value
    prev    \* the call before the last one (history, kept by chained calls)

vars == <<mode, other, text, call, prev>>

----------------------------------------------------------------------------
(* u32 *)

Width == 32

RECURSIVE BitsFrom(_, _)
BitsFrom(n, i) ==
    IF n = 0 THEN {}
    ELSE (IF n % 2 = 1 THEN {i} ELSE {}) \cup BitsFrom(n \div 2, i + 1)

\* the u32 written as the integer literal n
U32(n) == BitsFrom(n, 0)

U32And(x, y) == x \cap y
U32Or(x, y) == x \cup y
U32Not(x) == (0 .. Width - 1) \ x

----------------------------------------------------------------------------
(* the constants of mode.rs *)

EXTRA == U32(\b111000000000)
USER == U32(\b111000000)
GROUP == U32(\b000111000)
OTHERS == U32(\b000000111)
ALL == U32(\b111111111)

READ == U32(\b100100100)
WRITE == U32(\b010010010)
EXEC == U32(\b001001001)

STICKY == U32(\o1000)
SETGID == U32(\o2000)
SETUID == U32(\o4000)

----------------------------------------------------------------------------
(* Mode: constructors, conversions and operators *)

new == [value |-> {}]
all == [value |-> U32(\b111111111)]

\* impl From<u32> for Mode
from(value) == [value |-> value]
\* impl From<Mode> for u32
into_u32(m) == m.value

bitand(self, o) == [value |-> U32And(self.value, o.value)]
\* impl BitAndAssign: the value the receiver holds after `self &= o`
bitand_assign(self, o) == [value |-> U32And(self.value, o.value)]
bitor(self, o) == [value |-> U32Or(self.value, o.value)]
\* mutant: complements the 12 meaningful bits only
not_masked(self) == [value |-> (0 .. 11) \ self.value]
not(self) == [value |-> U32Not(self.value)]

\* derived PartialEq
eq(self, o) == self.value = o.value

\* mutant: true of any value that is not zero
is_exe_nonzero(self) == self.value # {}
is_exe(self) == U32And(self.value, U32(\o111)) # {}
\* mutant: true when any bit is shared (`!= 0` for `== other.value`)
has_any(self, o) == U32And(self.value, o.value) # {}
has(self, o) == U32And(self.value, o.value) = o.value
has_extra(self, perm) == U32And(self.value, perm) = perm

with_extra(self, perm) == [value |-> U32Or(self.value, perm)]
without_extra(self, perm) == [value |-> U32And(self.value, U32Not(perm))]
\* mutant: keeps only the 9 standard bits (masks with ALL instead of !EXTRA)
without_any_extra_low9(self) == [value |-> U32And(self.value, ALL)]
without_any_extra(self) == [value |-> U32And(self.value, U32Not(EXTRA))]
with_class_perm(self, class, perm) ==
    [value |-> U32Or(self.value, U32And(class, perm))]
\* mutant: removes class | perm
without_class_perm_union(self, class, perm) ==
    [value |-> U32And(self.value, U32Not(U32Or(class, perm)))]
without_class_perm(self, class, perm) ==
    [value |-> U32And(self.value, U32Not(U32And(class, perm)))]
with(self, o) == [value |-> U32Or(self.value, o.value)]
without(self, o) == [value |-> U32And(self.value, U32Not(o.value))]

USER_READ == with_class_perm(new, USER, READ)
USER_WRITE == with_class_perm(new, USER, WRITE)
USER_EXEC == with_class_perm(new, USER, EXEC)
GROUP_READ == with_class_perm(new, GROUP, READ)
GROUP_WRITE == with_class_perm(new, GROUP, WRITE)
GROUP_EXEC == with_class_perm(new, GROUP, EXEC)
OTHERS_READ == with_class_perm(new, OTHERS, READ)
OTHERS_WRITE == with_class_perm(new, OTHERS, WRITE)
OTHERS_EXEC == with_class_perm(new, OTHERS, EXEC)
ALL_READ == with_class_perm(new, ALL, READ)
ALL_WRITE == with_class_perm(new, ALL, WRITE)
ALL_EXEC == with_class_perm(new, ALL, EXEC)

----------------------------------------------------------------------------
(* Display *)

\* mutant: tests the exec bit first, so that 'x' hides the extra bit
fmt_exec_exec_first(self, extra, exec, lower, upper) ==
    IF has(self, exec) THEN "x"
    ELSE IF has_extra(self, extra) THEN upper
    ELSE "-"

\* the third character of a class: the exec bit overlaid by the extra bit
fmt_exec(self, extra, exec, lower, upper) ==
    IF has_extra(self, extra) /\ has(self, exec) THEN lower
    ELSE IF has_extra(self, extra) THEN upper
    ELSE IF has(self, exec) THEN "x"
    ELSE "-"

fmt(self) ==
    << IF has(self, USER_READ) THEN "r" ELSE "-",
       IF has(self, USER_WRITE) THEN "w" ELSE "-",
       fmt_exec(self, SETUID, USER_EXEC, "s", "S"),
       IF has(self, GROUP_READ) THEN "r" ELSE "-",
       IF has(self, GROUP_WRITE) THEN "w" ELSE "-",
       fmt_exec(self, SETGID, GROUP_EXEC, "s", "S"),
       IF has(self, OTHERS_READ) THEN "r" ELSE "-",
       IF has(self, OTHERS_WRITE) THEN "w" ELSE "-",
       fmt_exec(self, STICKY, OTHERS_EXEC, "t", "T") >>

----------------------------------------------------------------------------
(* parse *)

\* Result<Mode, ParseError>
Ok(m) == [kind |-> "Ok", mode |-> m]
InvalidChar(c, pos) == [kind |-> "InvalidChar", char |-> c, pos |-> pos]
NotEnoughInput == [kind |-> "NotEnoughInput"]
TrailingCharacters == [kind |-> "TrailingCharacters"]

\* i.next() when the iterator has yielded k items of s.chars().enumerate():
\* the pair (position, char) is (k, s[k + 1]); None when s is exhausted
HasNext(s, k) == k < Len(s)

\* mutant: reports the position counted from one
expect_single_one_based(s, k, n, m) ==
    IF HasNext(s, k)
    THEN LET c == s[k + 1] IN
         IF c = n THEN Ok(m)
         ELSE IF c = "-" THEN Ok(new)
         ELSE InvalidChar(c, k + 1)
    ELSE NotEnoughInput

expect_single(s, k, n, m) ==
    IF HasNext(s, k)
    THEN LET c == s[k + 1] IN
         IF c = n THEN Ok(m)
         ELSE IF c = "-" THEN Ok(new)
         ELSE InvalidChar(c, k)
    ELSE NotEnoughInput

\* mutant: the upper-case character sets the exec bit too
expect_exec_upper_exec(s, k, lower, upper, extra, exec) ==
    IF HasNext(s, k)
    THEN LET c == s[k + 1] IN
         IF c = lower \/ c = upper THEN Ok(bitor(from(extra), exec))
         ELSE IF c = "x" THEN Ok(exec)
         ELSE IF c = "-" THEN Ok(new)
         ELSE InvalidChar(c, k)
    ELSE NotEnoughInput

\* mutant: the lower-case character sets the extra bit only
expect_exec_lower_no_exec(s, k, lower, upper, extra, exec) ==
    IF HasNext(s, k)
    THEN LET c == s[k + 1] IN
         IF c = lower \/ c = upper THEN Ok(from(extra))
         ELSE IF c = "x" THEN Ok(exec)
         ELSE IF c = "-" THEN Ok(new)
         ELSE InvalidChar(c, k)
    ELSE NotEnoughInput

\* the match of an exec-or-special cell; Ok carries what is or-ed into result
expect_exec(s, k, lower, upper, extra, exec) ==
    IF HasNext(s, k)
    THEN LET c == s[k + 1] IN
         IF c = lower THEN Ok(bitor(from(extra), exec))
         ELSE IF c = upper THEN Ok(from(extra))
         ELSE IF c = "x" THEN Ok(exec)
         ELSE IF c = "-" THEN Ok(new)
         ELSE InvalidChar(c, k)
    ELSE NotEnoughInput

\* the k-th statement of parse's body (k = 0..8), reading one cell
parse_cell(s, k) ==
    CASE k = 0 -> expect_single(s, k, "r", USER_READ)
      [] k = 1 -> expect_single(s, k, "w", USER_WRITE)
      [] k = 2 -> expect_exec(s, k, "s", "S", SETUID, USER_EXEC)
      [] k = 3 -> expect_single(s, k, "r", GROUP_READ)
      [] k = 4 -> expect_single(s, k, "w", GROUP_WRITE)
      [] k = 5 -> expect_exec(s, k, "s", "S", SETGID, GROUP_EXEC)
      [] k = 6 -> expect_single(s, k, "r", OTHERS_READ)
      [] k = 7 -> expect_single(s, k, "w", OTHERS_WRITE)
      [] k = 8 -> expect_exec(s, k, "t", "T", STICKY, OTHERS_EXEC)

\* mutant: does not look for characters left over
parse_end_unchecked(s, k, result) == Ok(result)

\* parse's end: Ok(result) when the iterator is exhausted
parse_end(s, k, result) ==
    IF ~HasNext(s, k) THEN Ok(result) ELSE TrailingCharacters

\* parse's body from its k-th statement on, `result` being what is or-ed so
\* far; an Err returns at once (the `?` and the `return Err`)
RECURSIVE parse_from(_, _, _)
parse_from(s, k, result) ==
    IF k = 9 THEN parse_end(s, k, result)
    ELSE LET r == parse_cell(s, k) IN
         IF r.kind = "Ok"
         THEN parse_from(s, k + 1, bitor(result, r.mode))
         ELSE r

parse(s) == parse_from(s, 0, new)

----------------------------------------------------------------------------
(* the values the checks range over *)

\* how many of the bits above bit 11 the sampled Modes may have set
NHigh == 2
\* bits above the 12 meaningful ones, in the order they are taken: S_IFREG
\* (0o100000), the top bit of the u32, bit 12, S_IFDIR (0o040000), bit 13
HighOrder == <<15, 31, 12, 14, 13>>
HighBits == {HighOrder[i] : i \in 1 .. NHigh}
LowBits == 0 .. 11

\* every value of the 12 meaningful bits, with every choice of HighBits
Modes == {from(l \cup h) : l \in SUBSET LowBits, h \in SUBSET HighBits}

NoCall == [op |-> "none"]

----------------------------------------------------------------------------
(* the calls of a caller that formats, parses and strips a Mode *)

\* text = mode.to_string()
Display ==
    /\ text' = fmt(mode)
    /\ call' = [op |-> "fmt", self |-> mode, ret |-> fmt(mode)]
    /\ prev' = call
    /\ UNCHANGED <<mode, other>>

\* mode = text.parse()?   (FromStr::from_str is Mode::parse)
FromStr ==
    LET r == parse(text) IN
    /\ call' = [op |-> "parse", text |-> text, ret |-> r]
    /\ mode' = IF r.kind = "Ok" THEN r.mode ELSE mode
    /\ prev' = call
    /\ UNCHANGED <<text, other>>

\* mode = mode.without_any_extra()
WithoutAnyExtra ==
    /\ mode' = without_any_extra(mode)
    /\ call' = [op |-> "without_any_extra", self |-> mode,
                ret |-> without_any_extra(mode)]
    /\ prev' = call
    /\ UNCHANGED <<text, other>>

Init ==
    /\ mode \in Modes
    /\ other = new
    /\ text = <<>>
    /\ call = NoCall
    /\ prev = NoCall

Next ==
    \/ Display
    \/ FromStr
    \/ WithoutAnyExtra

Spec == Init /\ [][Next]_vars

----------------------------------------------------------------------------
(* the bit layout of section 3 of the specification, by bit position *)

\* class k is 0 for user, 1 for group, 2 for others
ReadBit(k) == 8 - 3 * k
WriteBit(k) == 7 - 3 * k
ExecBit(k) == 6 - 3 * k
\* setuid (11) for user, setgid (10) for group, sticky (9) for others
ExtraBit(k) == 11 - k
ExtraBits == {9, 10, 11}
SpecialLower(k) == IF k = 2 THEN "t" ELSE "s"
SpecialUpper(k) == IF k = 2 THEN "T" ELSE "S"

\* the third cell of class k for the u32 v, by the precedence of section 4.1
ThirdCell(v, k) ==
    IF ExtraBit(k) \in v /\ ExecBit(k) \in v THEN SpecialLower(k)
    ELSE IF ExtraBit(k) \in v THEN SpecialUpper(k)
    ELSE IF ExecBit(k) \in v THEN "x"
    ELSE "-"

\* a displayed character with the special-bit overlay taken away
Plain(c) ==
    IF c \in {"s", "t"} THEN "x" ELSE IF c \in {"S", "T"} THEN "-" ELSE c

----------------------------------------------------------------------------
(* claims checked under Spec *)

\* C2: Display writes exactly 9 characters, user r/w/x then group then
\* others; a read cell is 'r' iff the read bit is set, a write cell 'w' iff
\* the write bit is set, else '-'; the third cell of each class is s/s/t when
\* the extra bit and the exec bit are both set, S/S/T when only the extra bit
\* is set, 'x' when only the exec bit is set, '-' when neither is.
C2_DisplayCells ==
    call.op = "fmt" =>
        LET v == call.self.value
            s == call.ret
        IN /\ Len(s) = 9
           /\ s = text
           /\ \A k \in 0 .. 2 :
                /\ s[3 * k + 1] = (IF ReadBit(k) \in v THEN "r" ELSE "-")
                /\ s[3 * k + 2] = (IF WriteBit(k) \in v THEN "w" ELSE "-")
                /\ s[3 * k + 3] = ThirdCell(v, k)

\* a Mode of a regular file (S_IFREG set) displayed with all four kinds of
\* third cell
C2_Witness ==
    /\ call.op = "fmt"
    /\ 15 \in call.self.value
    /\ call.ret = <<"r", "w", "S", "r", "-", "s", "-", "w", "x">>

\* C1: the string Display produces for any Mode, bits above bit 11 included,
\* is accepted by parse, and formatting the parsed Mode gives the same string.
C1_FormatParseRoundTrip ==
    (call.op = "parse" /\ prev.op = "fmt" /\ call.text = prev.ret) =>
        /\ call.ret.kind = "Ok"
        /\ mode = call.ret.mode
        /\ fmt(call.ret.mode) = call.text

\* the display of a Mode with the top bit of the u32 and special bits set,
\* parsed back
C1_Witness ==
    /\ call.op = "parse"
    /\ prev.op = "fmt"
    /\ 31 \in prev.self.value
    /\ call.text = <<"r", "w", "s", "r", "-", "S", "-", "-", "t">>
    /\ call.ret.kind = "Ok"

\* C8: without_any_extra clears bits 9, 10 and 11 and leaves every other bit
\* as it was; so its display has only r, w, x and '-', and is the display of
\* the receiver with s and t replaced by x, and S and T by '-'.
C8_WithoutAnyExtra ==
    call.op = "without_any_extra" =>
        LET v == call.self.value
            r == call.ret.value
        IN /\ r \cap ExtraBits = {}
           /\ \A i \in (0 .. Width - 1) \ ExtraBits : (i \in r) <=> (i \in v)
           /\ \A i \in 1 .. 9 :
                /\ fmt(call.ret)[i] \in {"r", "w", "x", "-"}
                /\ fmt(call.ret)[i] = Plain(fmt(call.self)[i])

\* a Mode with the three extra bits, some exec bits and a high bit, stripped
C8_Witness ==
    /\ call.op = "without_any_extra"
    /\ ExtraBits \subseteq call.self.value
    /\ 15 \in call.self.value
    /\ 15 \in call.ret.value
    /\ fmt(call.self) = <<"r", "w", "s", "r", "-", "S", "-", "-", "t">>
    /\ fmt(call.ret) = <<"r", "w", "x", "r", "-", "-", "-", "-", "x">>

----------------------------------------------------------------------------
(* the strings parse is given *)

\* the characters of the grammar and one that no cell allows
Alphabet == {"r", "w", "x", "-", "s", "S", "t", "T", "a"}

\* the three cells of one class, each filled with a character it allows
Cells3(lower, upper) ==
    {<<a, b, c>> : a \in {"r", "-"}, b \in {"w", "-"},
                   c \in {"x", "-", lower, upper}}

\* every string of 9 cells the grammar allows
WellFormed ==
    {u \o g \o o : u \in Cells3("s", "S"), g \in Cells3("s", "S"),
                   o \in Cells3("t", "T")}

\* strings of the tests, and one with every kind of third cell
Base ==
    { <<"r", "w", "-", "r", "-", "-", "r", "-", "-">>,
      <<"-", "-", "-", "-", "-", "-", "-", "-", "-">>,
      <<"r", "w", "s", "r", "w", "s", "r", "w", "t">>,
      <<"r", "w", "S", "r", "-", "s", "-", "w", "T">> }

\* a Base string with the character at one position replaced (or kept)
Edits1 ==
    {[b EXCEPT ![i] = c] : b \in Base, i \in 1 .. 9, c \in Alphabet}

\* a Base string with the characters at two positions replaced (or kept)
Edits2 ==
    {[b EXCEPT ![i] = c, ![j] = d] :
        b \in Base, i \in 1 .. 8, j \in 2 .. 9, c \in Alphabet, d \in Alphabet}

\* how many characters may follow the 9 cells
MaxTail == 1
Tails == UNION {[1 .. n -> Alphabet] : n \in 0 .. MaxTail}

\* edited strings, whole and cut short
CutShort == {SubSeq(e, 1, n) : e \in Edits2, n \in 0 .. 9}
\* edited strings followed by more characters
Trailed == {e \o t : e \in Edits1, t \in Tails}

\* a caller that parses a given string and displays the Mode it holds
InitParse ==
    /\ mode = new
    /\ other = new
    /\ \/ text \in WellFormed
       \/ text \in CutShort
       \/ text \in Trailed
    /\ call = NoCall
    /\ prev = NoCall

NextParse ==
    \/ FromStr
    \/ Display

SpecParse == InitParse /\ [][NextParse]_vars

----------------------------------------------------------------------------
(* the grammar of section 4.1 of the specification, by character position *)

\* the characters allowed at zero-based position p < 9
Allowed(p) ==
    IF p \in {0, 3, 6} THEN {"r", "-"}
    ELSE IF p \in {1, 4, 7} THEN {"w", "-"}
    ELSE IF p \in {2, 5} THEN {"x", "-", "s", "S"}
    ELSE {"x", "-", "t", "T"}

\* the positions below 9 of s holding a character that is not allowed there
BadPositions(s) == {p \in 0 .. 8 : p < Len(s) /\ s[p + 1] \notin Allowed(p)}

Least(S) == CHOOSE p \in S : \A q \in S : p <= q

\* the bits the character c names in cell j (0 read, 1 write, 2 third) of
\* class k
CellBits(c, k, j) ==
    IF j = 0 THEN (IF c = "r" THEN {ReadBit(k)} ELSE {})
    ELSE IF j = 1 THEN (IF c = "w" THEN {WriteBit(k)} ELSE {})
    ELSE IF c = "x" THEN {ExecBit(k)}
    ELSE IF c = SpecialLower(k) THEN {ExtraBit(k), ExecBit(k)}
    ELSE IF c = SpecialUpper(k) THEN {ExtraBit(k)}
    ELSE {}

\* the union of the bits named by the 9 cells of s
StringBits(s) ==
    UNION {CellBits(s[3 * k + j + 1], k, j) : k \in 0 .. 2, j \in 0 .. 2}

----------------------------------------------------------------------------
(* claims checked under SpecParse *)

\* C3: for an input of any length whose first character not allowed in its
\* cell stands at zero-based position p < 9, parse fails with InvalidChar
\* carrying that character and p, whether the input is too short or too long.
C3_InvalidCharFirst ==
    (call.op = "parse" /\ BadPositions(call.text) # {}) =>
        LET p == Least(BadPositions(call.text))
        IN call.ret = InvalidChar(call.text[p + 1], p)

\* a 5-character input with 't' in the user's third cell and a second
\* disallowed character after it
C3_Witness ==
    /\ call.op = "parse"
    /\ call.text = <<"r", "w", "t", "r", "a">>
    /\ call.ret = InvalidChar("t", 2)

\* C4: an input whose characters all fit their cells fails with
\* NotEnoughInput when it has fewer than 9 characters and with
\* TrailingCharacters when it has more than 9, whatever the extra characters
\* are; Ok, InvalidChar, NotEnoughInput and TrailingCharacters are the only
\* outcomes; Ok is returned only for 9 characters, NotEnoughInput only for
\* fewer and TrailingCharacters only for more.
C4_LengthErrors ==
    call.op = "parse" =>
        LET s == call.text
            r == call.ret
        IN /\ r.kind \in {"Ok", "InvalidChar", "NotEnoughInput",
                          "TrailingCharacters"}
           /\ (BadPositions(s) = {} /\ Len(s) < 9) => r = NotEnoughInput
           /\ (BadPositions(s) = {} /\ Len(s) > 9) => r = TrailingCharacters
           /\ r.kind = "Ok" => Len(s) = 9
           /\ r.kind = "NotEnoughInput" => Len(s) < 9
           /\ r.kind = "TrailingCharacters" => Len(s) > 9

\* nine good cells followed by a character no cell allows
C4_Witness ==
    /\ call.op = "parse"
    /\ call.text = <<"r", "w", "-", "r", "-", "-", "r", "-", "-", "a">>
    /\ call.ret = TrailingCharacters

\* C5: the Mode parse returns for an accepted string is the union of the bits
\* its cells name, has no bit above bit 11, and displays as that string;
\* "rwsrwsrwt" parses to all() with the three extra bits.
C5_ParsedBits ==
    /\ (call.op = "parse" /\ call.ret.kind = "Ok") =>
          /\ call.ret.mode.value = StringBits(call.text)
          /\ call.ret.mode.value \subseteq 0 .. 11
          /\ fmt(call.ret.mode) = call.text
          /\ call.text = <<"r", "w", "s", "r", "w", "s", "r", "w", "t">> =>
               call.ret.mode
                 = with_extra(with_extra(with_extra(all, STICKY), SETUID),
                              SETGID)
    /\ (call.op = "fmt" /\ prev.op = "parse" /\ prev.ret.kind = "Ok") =>
          call.ret = prev.text

\* "rwsrwsrwt" parsed, then displayed again
C5_Witness ==
    /\ call.op = "fmt"
    /\ prev.op = "parse"
    /\ prev.ret.kind = "Ok"
    /\ prev.text = <<"r", "w", "s", "r", "w", "s", "r", "w", "t">>
    /\ prev.ret.mode.value = 0 .. 11

----------------------------------------------------------------------------
(* the algebra: has, `!`, `&= !x` and without, on two Modes *)

\* the low bits the sampled operands may have set: others' exec, user's exec
\* and read, setuid
SampleLow == {0, 6, 8, 11}
SampleModes == {from(l \cup h) : l \in SUBSET SampleLow, h \in SUBSET HighBits}

\* mode.has(other)
Has ==
    /\ call' = [op |-> "has", self |-> mode, arg |-> other,
                ret |-> has(mode, other)]
    /\ prev' = NoCall
    /\ UNCHANGED <<mode, other, text>>

\* mode = !mode
Not ==
    /\ mode' = not(mode)
    /\ call' = [op |-> "not", self |-> mode, ret |-> not(mode)]
    /\ prev' = call
    /\ UNCHANGED <<other, text>>

\* mode &= !other   (as test_build and test_extra_permissions do)
AndNotAssign ==
    /\ mode' = bitand_assign(mode, not(other))
    /\ call' = [op |-> "and_not_assign", self |-> mode, arg |-> other,
                ret |-> bitand_assign(mode, not(other))]
    /\ prev' = NoCall
    /\ UNCHANGED <<other, text>>

\* mode = mode.without(other)
Without ==
    /\ mode' = without(mode, other)
    /\ call' = [op |-> "without", self |-> mode, arg |-> other,
                ret |-> without(mode, other)]
    /\ prev' = NoCall
    /\ UNCHANGED <<other, text>>

InitAlgebra ==
    /\ mode \in SampleModes
    /\ other \in SampleModes
    /\ text = <<>>
    /\ call = NoCall
    /\ prev = NoCall

NextAlgebra ==
    \/ Has
    \/ Not
    \/ AndNotAssign
    \/ Without

SpecAlgebra == InitAlgebra /\ [][NextAlgebra]_vars

----------------------------------------------------------------------------
(* claims checked under SpecAlgebra *)

\* the integer of the bits 16h .. 16h+15 of the u32 v (h = 0 low half, 1 high
\* half): the integer of v is Half(v, 1) * 2^16 + Half(v, 0)
RECURSIVE SumBits(_, _)
SumBits(S, base) ==
    IF S = {} THEN 0
    ELSE LET i == CHOOSE j \in S : TRUE
         IN 2 ^ (i - base) + SumBits(S \ {i}, base)
Half(v, h) == SumBits(v \cap (16 * h .. 16 * h + 15), 16 * h)

\* C7: m.has(x) is true iff every bit set in x is set in m; m.has(m) and
\* m.has(Mode::new()) are true for every m.
C7_HasIsContainment ==
    call.op = "has" =>
        /\ call.ret <=>
             \A i \in 0 .. Width - 1 :
                 i \in call.arg.value => i \in call.self.value
        /\ call.arg = call.self => call.ret
        /\ call.arg = new => call.ret

\* has refusing a Mode that shares a bit with the receiver but has one more
C7_Witness ==
    /\ call.op = "has"
    /\ call.self.value = {0, 8, 31}
    /\ call.arg.value = {8, 15}
    /\ call.ret = FALSE

\* C9: the integer of !m is 2^32 - 1 minus the integer of m (each 16-bit half
\* of !m is 2^16 - 1 minus the same half of m); !!m is m; m &= !x clears the
\* bits of x, leaves every other bit of m, and gives what m.without(x) gives.
C9_NotIsFullWidth ==
    /\ call.op = "not" =>
          \A h \in {0, 1} :
              Half(call.ret.value, h) = (2 ^ 16 - 1) - Half(call.self.value, h)
    /\ (call.op = "not" /\ prev.op = "not" /\ call.self = prev.ret) =>
          call.ret = prev.self
    /\ call.op = "and_not_assign" =>
          /\ call.ret.value \cap call.arg.value = {}
          /\ \A i \in (0 .. Width - 1) \ call.arg.value :
                 (i \in call.ret.value) <=> (i \in call.self.value)
          /\ call.ret = without(call.self, call.arg)
          /\ mode = call.ret

\* m &= !x for an m with bits 15 and 31 and an x with bit 31: bit 15 stays
C9_Witness ==
    /\ call.op = "and_not_assign"
    /\ call.self.value = {0, 8, 15, 31}
    /\ call.arg.value = {8, 31}
    /\ call.ret.value = {0, 15}

----------------------------------------------------------------------------
(* with_class_perm and without_class_perm, chained *)

\* classes and permissions a caller passes: constants of mode.rs and, as
\* Class and Permission are plain u32, masks with a bit above bit 11
Classes == {USER, EXTRA, U32Or(USER, {15})}
Perms == {READ, EXEC, STICKY, U32Or(READ, {15})}

\* mode = mode.with_class_perm(class, perm)
WithClassPerm(class, perm) ==
    /\ mode' = with_class_perm(mode, class, perm)
    /\ call' = [op |-> "with_class_perm", self |-> mode, class |-> class,
                perm |-> perm, ret |-> with_class_perm(mode, class, perm)]
    /\ prev' = call
    /\ UNCHANGED <<other, text>>

\* mode = mode.without_class_perm(class, perm)
WithoutClassPerm(class, perm) ==
    /\ mode' = without_class_perm(mode, class, perm)
    /\ call' = [op |-> "without_class_perm", self |-> mode, class |-> class,
                perm |-> perm, ret |-> without_class_perm(mode, class, perm)]
    /\ prev' = call
    /\ UNCHANGED <<other, text>>

InitClassPerm ==
    /\ mode \in SampleModes
    /\ other = new
    /\ text = <<>>
    /\ call = NoCall
    /\ prev = NoCall

NextClassPerm ==
    \/ \E class \in Classes, perm \in Perms : WithClassPerm(class, perm)
    \/ \E class \in Classes, perm \in Perms : WithoutClassPerm(class, perm)

SpecClassPerm == InitClassPerm /\ [][NextClassPerm]_vars

\* the last two calls are m.with_class_perm(c, p).without_class_perm(c, p)
WithThenWithout ==
    /\ call.op = "without_class_perm"
    /\ prev.op = "with_class_perm"
    /\ call.class = prev.class
    /\ call.perm = prev.perm
    /\ call.self = prev.ret

----------------------------------------------------------------------------
(* two Modes that differ only above bit 11, observed side by side *)

\* the Modes that agree with m on bits 0..11 and are not m
Twins(m) ==
    {t \in SampleModes :
        t # m /\ U32And(t.value, LowBits) = U32And(m.value, LowBits)}

\* third Modes the two are compared with
Thirds == {new, all, from(HighBits), from({0, 15}), from({0, 8})}

TwinDisplay ==
    /\ call' = [op |-> "fmt", self |-> mode, twin |-> other,
                ret |-> fmt(mode), ret2 |-> fmt(other)]
    /\ UNCHANGED <<mode, other, text, prev>>

TwinIsExe ==
    /\ call' = [op |-> "is_exe", self |-> mode, twin |-> other,
                ret |-> is_exe(mode), ret2 |-> is_exe(other)]
    /\ UNCHANGED <<mode, other, text, prev>>

TwinHasExtra(perm) ==
    /\ call' = [op |-> "has_extra", self |-> mode, twin |-> other,
                arg |-> perm,
                ret |-> has_extra(mode, perm), ret2 |-> has_extra(other, perm)]
    /\ UNCHANGED <<mode, other, text, prev>>

\* mode.has(x) and other.has(x)
TwinHas(x) ==
    /\ call' = [op |-> "has", self |-> mode, twin |-> other, arg |-> x,
                ret |-> has(mode, x), ret2 |-> has(other, x)]
    /\ UNCHANGED <<mode, other, text, prev>>

\* x.has(mode) and x.has(other)
TwinHasIn(x) ==
    /\ call' = [op |-> "has_in", self |-> mode, twin |-> other, arg |-> x,
                ret |-> has(x, mode), ret2 |-> has(x, other)]
    /\ UNCHANGED <<mode, other, text, prev>>

\* mode == x and other == x
TwinEq(x) ==
    /\ call' = [op |-> "eq", self |-> mode, twin |-> other, arg |-> x,
                ret |-> eq(mode, x), ret2 |-> eq(other, x)]
    /\ UNCHANGED <<mode, other, text, prev>>

InitTwin ==
    /\ mode \in SampleModes
    /\ other \in Twins(mode)
    /\ text = <<>>
    /\ call = NoCall
    /\ prev = NoCall

NextTwin ==
    \/ TwinDisplay
    \/ TwinIsExe
    \/ \E perm \in {STICKY, SETGID, SETUID} : TwinHasExtra(perm)
    \/ \E x \in Thirds \cup {mode, other} : TwinHas(x)
    \/ \E x \in Thirds \cup {mode, other} : TwinHasIn(x)
    \/ \E x \in Thirds \cup {mode, other} : TwinEq(x)

SpecTwin == InitTwin /\ [][NextTwin]_vars

\* C10 as stated: two Modes that agree on bits 0..11 and differ only above
\* bit 11 give the same result under every observation: the Display string,
\* is_exe, has_extra of one extra bit, has(x), x.has(..) and == x for every x.
C10_HighBitsUnobservable ==
    call.op \in {"fmt", "is_exe", "has_extra", "has", "has_in", "eq"} =>
        call.ret = call.ret2

\* C10 amended: the two give the same Display string, the same is_exe, the
\* same has_extra of one extra bit, and the same has(x) for every x that has
\* no bit above bit 11 (has(x) for other x, x.has(..) and == compare the bits
\* above bit 11 too).
C10_LowObservations ==
    /\ call.op \in {"fmt", "is_exe", "has_extra"} => call.ret = call.ret2
    /\ (call.op = "has" /\ call.arg.value \subseteq LowBits) =>
          call.ret = call.ret2

\* a setuid executable Mode and the same with S_IFREG, displayed alike
C10_Witness ==
    /\ call.op = "fmt"
    /\ call.self.value = {6, 8, 11, 15}
    /\ call.twin.value = {6, 8, 11}
    /\ call.ret = <<"r", "-", "s", "-", "-", "-", "-", "-", "-">>
    /\ call.ret2 = call.ret

====
